---- MODULE Spec2Model ----
(***************************************************************************)
(* BM25 lexical search over chat messages: python/bm25_index.py.           *)
(*                                                                         *)
(* Text is a sequence of one-character strings.  A token is a non-empty    *)
(* sequence of characters.  Scores are fixed-point integers, in 1/10000,    *)
(* computed with the arithmetic of rank_bm25.BM25Okapi.                    *)
(*                                                                         *)
(*   Spec     one caller: any sequence of build_index, search and          *)
(*            add_documents calls on one index path                        *)
(*   SpecTok  preprocess_text on every short text, then on its own output  *)
(*   SpecCon  two writers and one search racing on the index file, with    *)
(*            load, open and every write of a dump as separate steps       *)
(*                                                                         *)
(* indexed is history: the source document of each persisted position and  *)
(* the operation that stored it.  The index file is read in one step.      *)
(***************************************************************************)
EXTENDS Integers, Sequences, FiniteSets, TLC

VARIABLES
  text, tokens, retokens, tpc,          \* tokenizer runs
  store, indexed, last, tieOrder,       \* the retrieval service, one caller
  file, file0, wr, rd                   \* the index file under concurrent callers

vars == <<text, tokens, retokens, tpc, store, indexed, last, tieOrder, file, file0, wr, rd>>

tokVars == <<text, tokens, retokens, tpc>>
svcVars == <<store, indexed, last, tieOrder>>
conVars == <<file, file0, wr, rd>>

-----------------------------------------------------------------------------
(* Bounds *)

MaxTextLen == 5     \* longest text given to the tokenizer runs
MaxDocs == 3        \* most documents the store holds
WriteParts == 2     \* write() calls one pickle.dump makes on the file

-----------------------------------------------------------------------------
(* Characters *)

LowerLetters == {"a", "b", "c", "d", "e", "f", "g", "h", "i", "j", "k", "l", "m",
                 "n", "o", "p", "q", "r", "s", "t", "u", "v", "w", "x", "y", "z"}
UpperLetters == {"H", "T", "P"}
Digits == {"0", "1", "2", "3", "4"}

\* \w of Python's re on str: letters, digits and the underscore.
IsWord(c) == c \in LowerLetters \cup UpperLetters \cup Digits \cup {"_"}

\* \s of Python's re.
IsSpace(c) == c = " "

\* str.lower() on one character.
Lower(c) ==
  CASE c = "H" -> "h"
    [] c = "T" -> "t"
    [] c = "P" -> "p"
    [] OTHER -> c

-----------------------------------------------------------------------------
(* preprocess_text *)

\* The longest prefix of s whose characters all satisfy the class
\* (word = TRUE: \w, word = FALSE: \S).
RECURSIVE RunLen(_, _)
RunLen(s, word) ==
  IF s = <<>> THEN 0
  ELSE IF (IF word THEN IsWord(Head(s)) ELSE ~IsSpace(Head(s)))
       THEN 1 + RunLen(Tail(s), word)
       ELSE 0

Drop(s, n) == SubSeq(s, n + 1, Len(s))

StartsWith(s, p) == Len(s) >= Len(p) /\ SubSeq(s, 1, Len(p)) = p

\* re.sub(r"http\S+", "", text): leftmost matches, \S+ greedy.
RECURSIVE StripUrls(_)
StripUrls(s) ==
  IF s = <<>> THEN <<>>
  ELSE IF StartsWith(s, <<"h", "t", "t", "p">>) /\ RunLen(Drop(s, 4), FALSE) >= 1
       THEN StripUrls(Drop(s, 4 + RunLen(Drop(s, 4), FALSE)))
       ELSE <<Head(s)>> \o StripUrls(Tail(s))

\* re.sub(r"<@\w+>", "", text).
RECURSIVE StripMentions(_)
StripMentions(s) ==
  IF s = <<>> THEN <<>>
  ELSE LET n == RunLen(Drop(s, 2), TRUE) IN
       IF /\ StartsWith(s, <<"<", "@">>)
          /\ n >= 1
          /\ Len(s) >= n + 3
          /\ s[n + 3] = ">"
       THEN StripMentions(Drop(s, n + 3))
       ELSE <<Head(s)>> \o StripMentions(Tail(s))

\* re.sub(r"[^\w\s]", " ", text).
ReplacePunct(s) ==
  [i \in 1..Len(s) |-> IF IsWord(s[i]) \/ IsSpace(s[i]) THEN s[i] ELSE " "]

LowerText(s) == [i \in 1..Len(s) |-> Lower(s[i])]

\* str.split(): the maximal runs of non-whitespace characters.
RECURSIVE Split(_)
Split(s) ==
  IF s = <<>> THEN <<>>
  ELSE IF IsSpace(Head(s)) THEN Split(Tail(s))
  ELSE LET n == RunLen(s, FALSE) IN <<SubSeq(s, 1, n)>> \o Split(Drop(s, n))

preprocess_text(s) ==
  Split(LowerText(ReplacePunct(StripMentions(StripUrls(s)))))

\* " ".join(tokens)
RECURSIVE Join(_)
Join(ts) ==
  IF ts = <<>> THEN <<>>
  ELSE IF Len(ts) = 1 THEN ts[1]
  ELSE ts[1] \o <<" ">> \o Join(Tail(ts))

-----------------------------------------------------------------------------
(* Tokenizer runs: normalize a text, then normalize its own joined output.  *)

TokAlphabet == {"h", "t", "p", "H", " ", ".", "<", "@", ">"}

Texts == UNION {[1..n -> TokAlphabet] : n \in 0..MaxTextLen}

NoSeq == <<<<"-">>>>

Normalize ==
  /\ tpc = "start"
  /\ tokens' = preprocess_text(text)
  /\ tpc' = "once"
  /\ UNCHANGED <<text, retokens, svcVars, conVars>>

Renormalize ==
  /\ tpc = "once"
  /\ retokens' = preprocess_text(Join(tokens))
  /\ tpc' = "twice"
  /\ UNCHANGED <<text, tokens, svcVars, conVars>>

-----------------------------------------------------------------------------
(* Documents *)

None == "<None>"

Get(msg, key, default) == IF key \in DOMAIN msg THEN msg[key] ELSE default

\* Python truthiness of an id-like value (None and "" are falsy).
Truthy(v) == v # None /\ v # ""

\* A thread reply with an id.
DocA == [id |-> "1", ts |-> "t1", thread_ts |-> "t0", text |-> <<"a", " ", "c">>]
\* A top-level message with author and channel.
DocB == [id |-> "2", ts |-> "t2", text |-> <<"d", ".", " ", "a">>, username |-> <<"u">>,
         channel |-> <<"g">>]
\* A thread parent without id and without text.
DocE == [ts |-> "t4", thread_ts |-> "t4"]

\* The documents requests are made of, by name.
DocPool == [A |-> DocA, B |-> DocB, E |-> DocE]

ThreadMarker ==
  <<" ", "[", "t", "h", "r", "e", "a", "d", "e", "d", " ", "r", "e", "p", "l", "y", "]">>

\* f"{text} {username} {channel}", then " [threaded reply]" for a thread reply.
Combined(msg) ==
  LET base == Get(msg, "text", <<>>) \o <<" ">> \o Get(msg, "username", <<>>)
                \o <<" ">> \o Get(msg, "channel", <<>>)
  IN IF /\ Truthy(Get(msg, "thread_ts", None))
        /\ Get(msg, "thread_ts", None) # Get(msg, "ts", None)
     THEN base \o ThreadMarker
     ELSE base

\* The token sequence of every document of the pool, as both loops compute it.
Tokenized == [d \in DOMAIN DocPool |-> preprocess_text(Combined(DocPool[d]))]

\* build_index: msg.get("id")
BuildId(msg) == Get(msg, "id", None)

\* add_documents: msg.get("id") or msg.get("ts") or msg.get("_id")
AddId(msg) ==
  IF Truthy(Get(msg, "id", None)) THEN msg["id"]
  ELSE IF Truthy(Get(msg, "ts", None)) THEN msg["ts"]
  ELSE Get(msg, "_id", None)

\* The document lists given to build and add.
Batches == {<<>>, <<"E">>, <<"A">>, <<"A", "B">>}

\* k1 in tenths, b in hundredths.
DefaultParams == [k1 |-> 12, b |-> 75]
ParamChoices == {DefaultParams, [k1 |-> 15, b |-> 50]}

-----------------------------------------------------------------------------
(* rank_bm25.BM25Okapi, as constructed and queried by bm25_index.py *)

\* 10000 * ln(k) for the odd k that log(n + 0.5) = ln((2n + 1) / 2) needs.
LnOdd(k) ==
  CASE k = 1 -> 0
    [] k = 3 -> 10986
    [] k = 5 -> 16094
    [] k = 7 -> 19459
    [] k = 9 -> 21972
    [] k = 11 -> 23979
    [] k = 13 -> 25649
    [] k = 15 -> 27080
    [] k = 17 -> 28332
    [] k = 19 -> 29444
    [] k = 21 -> 30445

\* Division rounding toward zero, which keeps the sign of the quotient.
Quot(a, b) == IF a >= 0 THEN a \div b ELSE -((-a) \div b)

RECURSIVE SumSeq(_)
SumSeq(s) == IF s = <<>> THEN 0 ELSE Head(s) + SumSeq(Tail(s))

RECURSIVE SumOver(_, _)
SumOver(f, S) ==
  IF S = {} THEN 0
  ELSE LET x == CHOOSE y \in S : TRUE IN f[x] + SumOver(f, S \ {x})

Range(s) == {s[i] : i \in 1..Len(s)}

Count(word, document) == Cardinality({i \in 1..Len(document) : document[i] = word})

\* math.log(corpus_size - freq + 0.5) - math.log(freq + 0.5)
RawIdf(corpus_size, freq) == LnOdd(2 * (corpus_size - freq) + 1) - LnOdd(2 * freq + 1)

\* epsilon = 0.25
EpsilonDen == 4

ZeroDivision == [ok |-> FALSE, error |-> "ZeroDivisionError"]

\* BM25Okapi(corpus, k1=k1, b=b): _initialize, then _calc_idf.  Either raises
\* ZeroDivisionError (avgdl of no documents, average_idf of no words) or
\* yields the statistics get_scores reads.
BM25Okapi(corpus, params) ==
  LET corpus_size == Len(corpus)
      doc_len == [i \in 1..corpus_size |-> Len(corpus[i])]
      num_doc == SumSeq(doc_len)
      words == UNION {Range(corpus[i]) : i \in 1..corpus_size}
      nd == [w \in words |-> Cardinality({i \in 1..corpus_size : w \in Range(corpus[i])})]
  IN IF corpus_size = 0 THEN ZeroDivision
     ELSE IF words = {} THEN ZeroDivision
     ELSE LET raw == [w \in words |-> RawIdf(corpus_size, nd[w])]
              idf_sum == SumOver(raw, words)
              eps == Quot(idf_sum, EpsilonDen * Cardinality(words))
          IN [ok |-> TRUE,
              corpus_size |-> corpus_size,
              doc_freqs |-> [i \in 1..corpus_size |->
                              [w \in Range(corpus[i]) |-> Count(w, corpus[i])]],
              doc_len |-> doc_len,
              num_doc |-> num_doc,
              idf |-> [w \in words |-> IF raw[w] < 0 THEN eps ELSE raw[w]],
              k1 |-> params.k1,
              b |-> params.b]

\* One query token's term of get_scores for document i:
\*   idf * q_freq * (k1 + 1) / (q_freq + k1 * (1 - b + b * doc_len / avgdl))
\* with avgdl = num_doc / corpus_size, k1 in tenths and b in hundredths.  The
\* term-frequency factor is taken in thousandths, the product in the unit of idf.
Contribution(bm25, q, i) ==
  LET q_freq == IF q \in DOMAIN bm25.doc_freqs[i] THEN bm25.doc_freqs[i][q] ELSE 0
      idf == IF q \in DOMAIN bm25.idf THEN bm25.idf[q] ELSE 0
      num == q_freq * (bm25.k1 + 10) * 100 * bm25.num_doc
      den == 1000 * q_freq * bm25.num_doc
               + bm25.k1 * (100 - bm25.b) * bm25.num_doc
               + bm25.k1 * bm25.b * bm25.doc_len[i] * bm25.corpus_size
  IN Quot(idf * Quot(1000 * num, den), 1000)

\* bm25.get_scores(q_tokens): one score per document, summed over the query
\* tokens in order (a repeated token counts again).
get_scores(bm25, q_tokens) ==
  [i \in 1..bm25.corpus_size |->
     SumSeq([j \in 1..Len(q_tokens) |-> Contribution(bm25, q_tokens[j], i)])]

-----------------------------------------------------------------------------
(* The persisted index and the three operations on it *)

NoParams == [k1 |-> 0, b |-> 0]

\* No file at index_path.
NoStore == [exists |-> FALSE, bm25 |-> ZeroDivision, doc_ids |-> <<>>,
            tokenized_corpus |-> <<>>]

\* What pickle.dump writes: {"bm25": ..., "doc_ids": ..., "tokenized_corpus": ...}.
Pickled(bm25, doc_ids, tokenized_corpus) ==
  [exists |-> TRUE, bm25 |-> bm25, doc_ids |-> doc_ids,
   tokenized_corpus |-> tokenized_corpus]

\* np.argsort(scores): document ordinals by ascending score.  numpy's default
\* sort kind does not promise an order among equal scores; order is the one
\* this run's numpy produces.
ArgSort(scores, order) ==
  LET n == Len(scores)
      Before(i, j) ==
        \/ scores[i] < scores[j]
        \/ /\ scores[i] = scores[j]
           /\ IF order = "ascending" THEN i < j ELSE i > j
  IN [p \in 1..n |-> CHOOSE i \in 1..n : Cardinality({j \in 1..n : Before(j, i)}) = p - 1]

\* a[-top_k:] of Python: the last top_k elements for top_k > 0, the whole
\* sequence for top_k = 0 (-0 is 0), a[|top_k|:] for top_k < 0.
TailSlice(a, top_k) ==
  LET n == Len(a)
      start == IF top_k > 0
               THEN (IF n - top_k > 0 THEN n - top_k ELSE 0)
               ELSE (IF -top_k < n THEN -top_k ELSE n)
  IN SubSeq(a, start + 1, n)

\* a[::-1]
Reversed(a) == [i \in 1..Len(a) |-> a[Len(a) + 1 - i]]

\* The loop of search: keep (doc_ids[idx], scores[idx]) where scores[idx] > 0.
RECURSIVE Positive(_, _, _)
Positive(top_idx, doc_ids, scores) ==
  IF top_idx = <<>> THEN <<>>
  ELSE LET idx == Head(top_idx)
           rest == Positive(Tail(top_idx), doc_ids, scores)
       IN IF scores[idx] > 0 THEN <<[id |-> doc_ids[idx], score |-> scores[idx], idx |-> idx]>> \o rest
          ELSE rest

\* search(index_path, query, top_k) on the persisted state st.  The idx field
\* of a result is the ordinal it was read from; the code returns (id, score).
search(st, query, top_k, order) ==
  IF ~st.exists THEN <<>>
  ELSE LET bm25 == st.bm25
           q_tokens == preprocess_text(query)
           scores == get_scores(bm25, q_tokens)
           top_idx == Reversed(TailSlice(ArgSort(scores, order), top_k))
       IN Positive(top_idx, st.doc_ids, scores)

\* The two parallel lists build_index fills from the corpus documents.
BuildLists(docs) ==
  [doc_ids |-> [i \in 1..Len(docs) |-> BuildId(DocPool[docs[i]])],
   tokenized_docs |-> [i \in 1..Len(docs) |-> Tokenized[docs[i]]]]

\* A mutant of AddLists: a document whose id is already stored is not added.
AddListsSkipKnown(loaded, docs) ==
  LET fresh == SelectSeq(docs, LAMBDA d : AddId(DocPool[d]) \notin Range(loaded.doc_ids))
  IN [doc_ids |-> loaded.doc_ids \o [i \in 1..Len(fresh) |-> AddId(DocPool[fresh[i]])],
      tokenized_corpus |-> loaded.tokenized_corpus
                             \o [i \in 1..Len(fresh) |-> Tokenized[fresh[i]]]]

\* A mutant of AddLists: a new document without tokens is left out of the
\* tokenized corpus while its id is still recorded.
AddListsSkipEmpty(loaded, docs) ==
  LET kept == SelectSeq(docs, LAMBDA d : Tokenized[d] # <<>>)
  IN [doc_ids |-> loaded.doc_ids \o [i \in 1..Len(docs) |-> AddId(DocPool[docs[i]])],
      tokenized_corpus |-> loaded.tokenized_corpus
                             \o [i \in 1..Len(kept) |-> Tokenized[kept[i]]]]

\* A mutant of AddLists: the loaded lists are not carried over.
AddListsNewOnly(loaded, docs) ==
  [doc_ids |-> [i \in 1..Len(docs) |-> AddId(DocPool[docs[i]])],
   tokenized_corpus |-> [i \in 1..Len(docs) |-> Tokenized[docs[i]]]]

\* The two parallel lists of add_documents after both extend() calls.
AddLists(loaded, docs) ==
  [doc_ids |-> loaded.doc_ids \o [i \in 1..Len(docs) |-> AddId(DocPool[docs[i]])],
   tokenized_corpus |-> loaded.tokenized_corpus \o [i \in 1..Len(docs) |-> Tokenized[docs[i]]]]

Queries == {<<>>, <<"a">>, <<"d">>, <<"c", " ", "d">>}

TopKs == -1..(MaxDocs + 1)

\* The last call: its operation, arguments, outcome (status: "ok" or the
\* exception raised) and return value.  pre is the persisted state
\* add_documents loaded; repeat tells that the call before had the same
\* operation and arguments.
NoCall == [op |-> "none", corpus_exists |-> TRUE, docs |-> <<>>, params |-> NoParams,
           query |-> <<>>, top_k |-> 0, status |-> "none", returned |-> <<>>,
           pre |-> NoStore, repeat |-> FALSE]

\* The call's operation and arguments.
Args(call) == <<call.op, call.corpus_exists, call.docs, call.params, call.query, call.top_k>>

\* call, marked as a repeat when the call before it had the same arguments.
Record(call) == [call EXCEPT !.repeat = (Args(call) = Args(last))]

\* build_index with no file at corpus_json_path.
BuildNoCorpus(params) ==
  /\ last' = Record([NoCall EXCEPT !.op = "build", !.corpus_exists = FALSE, !.params = params,
                                   !.status = "FileNotFoundError"])
  /\ UNCHANGED <<store, indexed, tieOrder, tokVars, conVars>>

build_index(docs, params) ==
  LET lists == BuildLists(docs)
      bm25 == BM25Okapi(lists.tokenized_docs, params)
      call == [NoCall EXCEPT !.op = "build", !.docs = docs, !.params = params]
  IN IF ~bm25.ok
     THEN /\ last' = Record([call EXCEPT !.status = bm25.error])
          /\ UNCHANGED <<store, indexed, tieOrder, tokVars, conVars>>
     ELSE /\ store' = Pickled(bm25, lists.doc_ids, lists.tokenized_docs)
          /\ indexed' = [i \in 1..Len(docs) |-> [doc |-> docs[i], by |-> "build"]]
          /\ last' = Record([call EXCEPT !.status = "ok",
                                         !.returned = <<Len(docs), Len(lists.doc_ids)>>])
          /\ UNCHANGED <<tieOrder, tokVars, conVars>>

Search(query, top_k) ==
  /\ last' = Record([NoCall EXCEPT !.op = "search", !.query = query, !.top_k = top_k,
                                   !.status = "ok",
                                   !.returned = search(store, query, top_k, tieOrder)])
  /\ UNCHANGED <<store, indexed, tieOrder, tokVars, conVars>>

add_documents(docs, params) ==
  LET lists == AddLists(store, docs)
      bm25 == BM25Okapi(lists.tokenized_corpus, params)
      call == [NoCall EXCEPT !.op = "add", !.docs = docs, !.params = params, !.pre = store]
  IN /\ Len(store.doc_ids) + Len(docs) <= MaxDocs
     /\ IF ~bm25.ok
        THEN /\ last' = Record([call EXCEPT !.status = bm25.error])
             /\ UNCHANGED <<store, indexed, tieOrder, tokVars, conVars>>
        ELSE /\ store' = Pickled(bm25, lists.doc_ids, lists.tokenized_corpus)
             /\ indexed' = indexed \o [i \in 1..Len(docs) |-> [doc |-> docs[i], by |-> "add"]]
             /\ last' = Record([call EXCEPT !.status = "ok", !.returned = Len(docs)])
             /\ UNCHANGED <<tieOrder, tokVars, conVars>>

-----------------------------------------------------------------------------
(* Concurrent callers on one index file: two writers and one search.  The   *)
(* file is the sequence of parts written to it; a part names its writer     *)
(* ("init": the content the file starts with) and its place in that         *)
(* writer's pickle.                                                         *)

Writers == {"w1", "w2"}

NoFile == [exists |-> FALSE, parts |-> <<>>]

\* The zero bytes of a region never written, left by a write past the end.
Hole == [by |-> "none", part |-> 0]

\* The file holding all of one pickle.
WholeFile(by) == [exists |-> TRUE, parts |-> [k \in 1..WriteParts |-> [by |-> by, part |-> k]]]

\* The pickled state a part belongs to.
ImageOf(by) == IF by = "init" THEN file0 ELSE wr[by].img

\* The file's bytes are those of one whole pickle.
Complete(f) ==
  /\ f.exists
  /\ Len(f.parts) = WriteParts
  /\ \A k \in 1..WriteParts :
       /\ f.parts[k].part = k
       /\ ImageOf(f.parts[k].by) = ImageOf(f.parts[1].by)

\* pickle.load(f): the pickled state, or an error on anything but a whole pickle.
pickle_load(f) ==
  IF Complete(f) THEN [ok |-> TRUE, data |-> ImageOf(f.parts[1].by)]
  ELSE [ok |-> FALSE, error |-> IF f.parts = <<>> THEN "EOFError" ELSE "UnpicklingError"]

\* open(index_path, "wb"): the file exists and is empty.
OpenTruncate(f) == [exists |-> TRUE, parts |-> <<>>]

\* A write of part k at its offset; the file grows to hold it.
WritePart(f, by, k) ==
  [f EXCEPT !.parts =
     [i \in 1..(IF Len(f.parts) > k THEN Len(f.parts) ELSE k) |->
        IF i = k THEN [by |-> by, part |-> k]
        ELSE IF i <= Len(f.parts) THEN f.parts[i] ELSE Hole]]

\* The calls the two writers make.
WriterCalls ==
  {[op |-> "add", docs |-> <<"A">>], [op |-> "add", docs |-> <<"A", "B">>],
   [op |-> "add", docs |-> <<"E">>], [op |-> "build", docs |-> <<"A", "B">>],
   [op |-> "build", docs |-> <<"E">>]}

\* The states the file starts in: missing, or built from two documents.
InitialImages ==
  {NoStore,
   Pickled(BM25Okapi(BuildLists(<<"E", "A">>).tokenized_docs, DefaultParams),
           BuildLists(<<"E", "A">>).doc_ids, BuildLists(<<"E", "A">>).tokenized_docs)}

Idle == [pc |-> "start", query |-> <<>>, top_k |-> 0, status |-> "none", returned |-> <<>>,
         saw |-> NoFile]

\* add_documents, lines 71-79: load the index if the file exists.
AddLoad(w) ==
  /\ wr[w].pc = "start" /\ wr[w].op = "add"
  /\ IF ~file.exists
     THEN wr' = [wr EXCEPT ![w].pc = "loaded"]
     ELSE LET got == pickle_load(file) IN
          IF got.ok
          THEN wr' = [wr EXCEPT ![w].pc = "loaded", ![w].loaded = got.data]
          ELSE wr' = [wr EXCEPT ![w].pc = "done", ![w].status = got.error]
  /\ UNCHANGED <<file, file0, rd, tokVars, svcVars>>

\* add_documents, lines 81-100: extend the lists, rebuild BM25, open the file
\* for writing.
AddOpen(w) ==
  /\ wr[w].pc = "loaded"
  /\ LET lists == AddLists(wr[w].loaded, wr[w].docs)
         bm25 == BM25Okapi(lists.tokenized_corpus, wr[w].params)
     IN IF ~bm25.ok
        THEN /\ wr' = [wr EXCEPT ![w].pc = "done", ![w].status = bm25.error]
             /\ UNCHANGED file
        ELSE /\ wr' = [wr EXCEPT ![w].pc = "writing", ![w].pos = 1,
                                 ![w].img = Pickled(bm25, lists.doc_ids, lists.tokenized_corpus)]
             /\ file' = OpenTruncate(file)
  /\ UNCHANGED <<file0, rd, tokVars, svcVars>>

\* build_index, lines 22-40: tokenize the corpus, build BM25, open the file
\* for writing.
BuildOpen(w) ==
  /\ wr[w].pc = "start" /\ wr[w].op = "build"
  /\ LET lists == BuildLists(wr[w].docs)
         bm25 == BM25Okapi(lists.tokenized_docs, wr[w].params)
     IN IF ~bm25.ok
        THEN /\ wr' = [wr EXCEPT ![w].pc = "done", ![w].status = bm25.error]
             /\ UNCHANGED file
        ELSE /\ wr' = [wr EXCEPT ![w].pc = "writing", ![w].pos = 1,
                                 ![w].img = Pickled(bm25, lists.doc_ids, lists.tokenized_docs)]
             /\ file' = OpenTruncate(file)
  /\ UNCHANGED <<file0, rd, tokVars, svcVars>>

\* How many saves have returned (rank orders the saves by their return).
Returned == Cardinality({v \in Writers : wr[v].status = "ok"})

\* pickle.dump, lines 41 and 101: the next write; after the last one the file
\* is closed and the call returns.
Dump(w) ==
  /\ wr[w].pc = "writing"
  /\ file' = WritePart(file, w, wr[w].pos)
  /\ wr' = IF wr[w].pos = WriteParts
           THEN [wr EXCEPT ![w].pc = "done", ![w].status = "ok", ![w].rank = Returned + 1]
           ELSE [wr EXCEPT ![w].pos = wr[w].pos + 1]
  /\ UNCHANGED <<file0, rd, tokVars, svcVars>>

\* search, lines 47-63, on the file as it is at this moment.
SearchFile ==
  /\ rd.pc = "start"
  /\ IF ~file.exists
     THEN rd' = [rd EXCEPT !.pc = "done", !.status = "ok", !.saw = file]
     ELSE LET got == pickle_load(file) IN
          IF got.ok
          THEN rd' = [rd EXCEPT !.pc = "done", !.status = "ok", !.saw = file,
                                !.returned = search(got.data, rd.query, rd.top_k, tieOrder)]
          ELSE rd' = [rd EXCEPT !.pc = "done", !.status = got.error, !.saw = file]
  /\ UNCHANGED <<file, file0, wr, tokVars, svcVars>>

-----------------------------------------------------------------------------
(* Specifications *)

\* The retrieval service with one caller at a time, starting with no index
\* file: any sequence of build, search and add calls.
Init ==
  /\ store = NoStore
  /\ indexed = <<>>
  /\ last = NoCall
  /\ tieOrder \in {"ascending", "descending"}
  /\ text = <<>> /\ tokens = NoSeq /\ retokens = NoSeq /\ tpc = "idle"
  /\ file = NoFile /\ file0 = NoStore /\ wr = <<>> /\ rd = Idle

Next ==
  \/ \E params \in ParamChoices : BuildNoCorpus(params)
  \/ \E docs \in Batches, params \in ParamChoices : build_index(docs, params)
  \/ \E query \in Queries, top_k \in TopKs : Search(query, top_k)
  \/ \E docs \in Batches, params \in ParamChoices : add_documents(docs, params)

Spec == Init /\ [][Next]_vars

\* The tokenizer applied to every text of the alphabet, then to its own output.
TokInit ==
  /\ text \in Texts
  /\ tokens = NoSeq
  /\ retokens = NoSeq
  /\ tpc = "start"
  /\ store = NoStore /\ indexed = <<>> /\ last = NoCall /\ tieOrder = "ascending"
  /\ file = NoFile /\ file0 = NoStore /\ wr = <<>> /\ rd = Idle

TokNext == Normalize \/ Renormalize

SpecTok == TokInit /\ [][TokNext]_vars

\* Two writers and one search, each making one call, on a file that is
\* missing or holds a built index.
ConInit ==
  /\ file0 \in InitialImages
  /\ file = IF file0.exists THEN WholeFile("init") ELSE NoFile
  /\ wr \in [Writers -> {[pc |-> "start", op |-> c.op, docs |-> c.docs, params |-> DefaultParams,
                          loaded |-> NoStore, img |-> NoStore, pos |-> 0, status |-> "none",
                          rank |-> 0]
                           : c \in WriterCalls}]
  /\ rd = [Idle EXCEPT !.query = <<"d">>, !.top_k = MaxDocs]
  /\ store = NoStore /\ indexed = <<>> /\ last = NoCall /\ tieOrder = "ascending"
  /\ text = <<>> /\ tokens = NoSeq /\ retokens = NoSeq /\ tpc = "idle"

ConNext ==
  \/ \E w \in Writers : AddLoad(w)
  \/ \E w \in Writers : AddOpen(w)
  \/ \E w \in Writers : BuildOpen(w)
  \/ \E w \in Writers : Dump(w)
  \/ SearchFile

SpecCon == ConInit /\ [][ConNext]_vars

-----------------------------------------------------------------------------
(* Properties of the retrieval service with one caller (Spec) *)

AddIds(docs) == [i \in 1..Len(docs) |-> AddId(DocPool[docs[i]])]
TokensOf(docs) == [i \in 1..Len(docs) |-> preprocess_text(Combined(DocPool[docs[i]]))]

\* C1: the persisted id list and tokenized corpus have the same length, and
\* position i of the corpus holds the tokens of the document whose id is at
\* position i of the id list.
C1_ParallelLists ==
  /\ Len(store.doc_ids) = Len(store.tokenized_corpus)
  /\ Len(indexed) = Len(store.doc_ids)
  /\ \A i \in 1..Len(indexed) :
       LET msg == DocPool[indexed[i].doc] IN
       /\ store.tokenized_corpus[i] = preprocess_text(Combined(msg))
       /\ store.doc_ids[i] = IF indexed[i].by = "build" THEN BuildId(msg) ELSE AddId(msg)

\* An existing store built earlier has been extended by a successful add.
C1_Witness ==
  /\ last.op = "add" /\ last.status = "ok"
  /\ last.pre.exists /\ last.docs # <<>>
  /\ \E i \in 1..Len(indexed) : indexed[i].by = "build"
  /\ Len(store.doc_ids) = MaxDocs

\* C2: search returns at most top_k results (top_k >= 0, zero included) and
\* every returned score is strictly positive.
C2_AtMostTopK ==
  (last.op = "search" /\ last.top_k >= 0) =>
     /\ Len(last.returned) <= last.top_k
     /\ \A i \in 1..Len(last.returned) : last.returned[i].score > 0

\* C3: search results are in descending score order, equal scores in ascending
\* ordinal order, and among equal scores the lower ordinals are the ones kept.
C3_TieOrder ==
  last.op = "search" /\ last.top_k >= 1 /\ store.exists =>
    LET r == last.returned
        scores == get_scores(store.bm25, preprocess_text(last.query))
        got == {r[i].idx : i \in 1..Len(r)}
    IN /\ \A i, j \in 1..Len(r) :
            i < j => \/ r[i].score > r[j].score
                     \/ r[i].score = r[j].score /\ r[i].idx < r[j].idx
       /\ \A i \in got, k \in (1..Len(scores)) \ got :
            scores[k] = scores[i] => i < k

\* The lone occurrences: the terms of document i that no other document holds.
UniqueTerms(corpus, i) ==
  {t \in Range(corpus[i]) : \A k \in 1..Len(corpus) : k # i => t \notin Range(corpus[k])}

\* C4: after add_documents completes, a search for a term that only one of the
\* added documents holds, with top_k >= 1, returns that document's id.
C4_UniqueTermFound ==
  last.op = "add" /\ last.status = "ok" =>
    \A i \in (Len(last.pre.doc_ids) + 1)..Len(store.doc_ids) :
      \A t \in UniqueTerms(store.tokenized_corpus, i) :
        \A top_k \in 1..(MaxDocs + 1) :
          LET r == search(store, t, top_k, tieOrder)
          IN store.doc_ids[i] \in {r[j].id : j \in 1..Len(r)}

\* C6: with no file at the index path, search returns no results and
\* add_documents, for any list of documents, persists exactly those documents
\* in the given order and returns their count.
C6_MissingStore ==
  /\ (last.op = "search" /\ ~store.exists) => last.status = "ok" /\ last.returned = <<>>
  /\ (last.op = "add" /\ ~last.pre.exists) =>
       /\ last.status = "ok"
       /\ store.exists
       /\ store.doc_ids = AddIds(last.docs)
       /\ store.tokenized_corpus = TokensOf(last.docs)
       /\ last.returned = Len(last.docs)

\* C7: add_documents keeps the n persisted documents as a prefix, places the m
\* new documents at positions n+1..n+m in the order given, and returns m.
C7_AppendOnly ==
  last.op = "add" =>
    LET n == Len(last.pre.doc_ids)
        m == Len(last.docs)
    IN /\ Len(store.doc_ids) = n + m
       /\ Len(store.tokenized_corpus) = n + m
       /\ SubSeq(store.doc_ids, 1, n) = last.pre.doc_ids
       /\ SubSeq(store.tokenized_corpus, 1, n) = last.pre.tokenized_corpus
       /\ SubSeq(store.doc_ids, n + 1, n + m) = AddIds(last.docs)
       /\ SubSeq(store.tokenized_corpus, n + 1, n + m) = TokensOf(last.docs)
       /\ last.status = "ok"
       /\ last.returned = m

\* The same property of the calls of add_documents that return.
AppendOnlyWhenReturned == (last.op = "add" /\ last.status # "ok") \/ C7_AppendOnly

\* This step repeats the call made just before it.
SameCallAgain == last.op # "none" /\ last'.repeat /\ Args(last') = Args(last)

\* C8: build, search and add are idempotent: the same call made twice in a row
\* leaves the store as the first call left it and returns the same result.
C8_Idempotent ==
  [][SameCallAgain =>
       /\ store' = store
       /\ last'.status = last.status
       /\ last'.returned = last.returned]_vars

\* C8 as amended: a repeated build or search leaves the store unchanged; a
\* repeated add that returns appends its documents once more, and one that
\* raises leaves the store unchanged; the result is the same both times.
C8_IdempotentButAdd ==
  [][SameCallAgain =>
       /\ last'.status = last.status
       /\ last'.returned = last.returned
       /\ IF last.op = "add" /\ last.status = "ok"
          THEN /\ store'.doc_ids = store.doc_ids \o AddIds(last.docs)
               /\ store'.tokenized_corpus = store.tokenized_corpus \o TokensOf(last.docs)
               /\ store'.bm25.k1 = store.bm25.k1
               /\ store'.bm25.b = store.bm25.b
          ELSE store' = store]_vars

\* The same non-empty add has been made twice in a row, and returned.
C8_Witness ==
  last.op = "add" /\ last.repeat /\ last.status = "ok" /\ last.docs # <<>>

-----------------------------------------------------------------------------
(* Properties of the tokenizer (SpecTok) *)

\* C10: normalizing the space-joined tokens of a text yields the same tokens.
C10_TokenizeIdempotent == tpc = "twice" => retokens = tokens

-----------------------------------------------------------------------------
(* Properties of concurrent callers (SpecCon) *)

\* C5: a search concurrent with a save reads a whole store state, the one
\* before the save or the one after it, never an empty or partial file.
C5_AtomicReplace ==
  rd.pc = "done" =>
    \/ rd.saw = NoFile /\ ~file0.exists
    \/ rd.saw = WholeFile("init")
    \/ \E w \in Writers : wr[w].pc \in {"writing", "done"} /\ rd.saw = WholeFile(w)

\* The save of writer w has begun: the file was opened for writing.
Saved(w) == wr[w].pc = "writing" \/ (wr[w].pc = "done" /\ wr[w].status = "ok")

\* C9: writes are not serialized and the last writer wins: what a writer saves
\* is the state it loaded (nothing, for build) followed by its own documents,
\* and once all writers are done a whole file is the save that returned last,
\* alone, whatever the other writer saved.
C9_LastWriterWins ==
  /\ \A w \in Writers : Saved(w) =>
       /\ wr[w].img.doc_ids =
            IF wr[w].op = "add" THEN wr[w].loaded.doc_ids \o AddIds(wr[w].docs)
            ELSE [i \in 1..Len(wr[w].docs) |-> BuildId(DocPool[wr[w].docs[i]])]
       /\ wr[w].img.tokenized_corpus =
            (IF wr[w].op = "add" THEN wr[w].loaded.tokenized_corpus ELSE <<>>)
              \o TokensOf(wr[w].docs)
  /\ ((\A w \in Writers : wr[w].pc = "done") /\ Complete(file)) =>
       \/ \E w \in Writers : /\ wr[w].status = "ok"
                              /\ \A v \in Writers : wr[v].rank <= wr[w].rank
                              /\ pickle_load(file).data = wr[w].img
       \/ (\A w \in Writers : wr[w].status # "ok") /\ file = WholeFile("init")

\* A lost update: both writers loaded the same state and both returned, and
\* the file holds the save of w2 without the documents w1 added.
C9_Witness ==
  /\ \A w \in Writers : wr[w].pc = "done" /\ wr[w].status = "ok" /\ wr[w].op = "add"
  /\ wr["w1"].loaded = wr["w2"].loaded
  /\ wr["w1"].rank < wr["w2"].rank
  /\ file = WholeFile("w2")
  /\ \E i \in 1..Len(wr["w1"].docs) :
       AddId(DocPool[wr["w1"].docs[i]]) \notin Range(wr["w2"].img.doc_ids)

====
